---- MODULE Spec2Model ----
(***************************************************************************)
(* Model of build.rs, the build script of tflite-rs: the pipeline that     *)
(* fetches and verifies the TensorFlow source archive, extracts and        *)
(* patches it, drives make to produce libtensorflow-lite.a, generates      *)
(* tflite_types.rs with bindgen and compiles the inline C++ shim.          *)
(*                                                                         *)
(* The state is the content of OUT_DIR, which outlives a run, plus the     *)
(* position and environment of each running build script.  Every fallible  *)
(* step of the code (unwrap, expect, assert!) takes the run to "aborted".  *)
(* The default feature set is modelled (feature debug_tflite off).         *)
(***************************************************************************)
EXTENDS Naturals, Sequences, FiniteSets, TLC

(* ------------------------------ bounds --------------------------------- *)

\* Runs of the build script against one OUT_DIR.
MaxRuns == 2
\* Chunks the HTTP body is streamed in; the last one is held by the BufWriter.
BodyChunks == 2
\* The download counter of a run saturates here.
FetchCap == 2

(* --------------------------- the environment --------------------------- *)

\* Values TFLITE_VERSION is given over the life of the output directory.
Versions == {"1.12.2", "1.13.1"}
OSes == {"linux", "macos"}
Archs == {"x86_64", "aarch64"}
\* (CARGO_CFG_TARGET_OS, CARGO_CFG_TARGET_ARCH)
Targets == [os : OSes, arch : Archs]

\* Build-script processes; Main is the one a serialized caller runs.
Procs == {"p1", "p2"}
Main == "p1"

\* What a server can send: the release tarball of a version, or anything else.
Bodies == Versions \cup {"other"}
Body(b) == [i \in 1..BodyChunks |-> <<b, i>>]

NoFile == [exists |-> FALSE, data |-> <<>>]
File(d) == [exists |-> TRUE, data |-> d]

NoDir == [exists |-> FALSE, unpacked |-> "none", deps |-> "none",
          linux_inc |-> FALSE, aarch64_inc |-> FALSE,
          mmap_cc |-> FALSE, nnapi_cc |-> FALSE,
          gen |-> [t \in Targets |-> "none"]]
\* The tree as tar leaves it: both colliding sources present, stock makefiles.
FreshTree(how) == [NoDir EXCEPT !.exists = TRUE, !.unpacked = how,
                                !.mmap_cc = (how = "full"),
                                !.nnapi_cc = (how = "full")]

NoTarget == [os |-> "none", arch |-> "none"]
NoLib == [exists |-> FALSE, ver |-> "none", target |-> NoTarget,
          build |-> "none", whole |-> FALSE]

NoResp == [body |-> "none", off |-> 0]

NoTypes == [exists |-> FALSE, ver |-> "none", decls |-> {}]

\* The run before this one, when it completed main and nothing changed since.
NoLast == [ok |-> FALSE, ver |-> "none", target |-> NoTarget]

\* What one run has done: downloads attempted, files of OUT_DIR written, exit
\* status of the two external tools, what the run found when it started and
\* what its two existence checks (working tree, library) answered.
NoLog == [fetch |-> 0, wrote |-> {}, deps |-> "none", make |-> "none",
          verified |-> FALSE, extracted |-> FALSE, linked |-> FALSE,
          start_valid |-> FALSE, start_exists |-> FALSE, prev |-> NoLast,
          found_tree |-> "unseen", found_lib |-> "unseen"]

VARIABLES
    archive,    \* OUT_DIR/tensorflow/v<version>.tar.gz, per version
    tree,       \* OUT_DIR/tensorflow/tensorflow-<version>/, per version
    lib,        \* OUT_DIR/libtensorflow-lite.a
    types_rs,   \* OUT_DIR/tflite_types.rs: the declarations and their version
    shim,       \* the compiled inline C++: "none" or the version it came from
    pc,         \* position of each build script
    version,    \* TFLITE_VERSION of each build script
    target,     \* target os and arch of each build script
    resp,       \* the HTTP response body a download is streaming, and how
                \* many chunks of it the download has written
    log,        \* what the current run of each build script has done so far
    last,       \* the last run that completed main, if nothing changed since
    runs,       \* runs started
    tampers     \* whether an archive has been altered on disk between runs

vars == <<archive, tree, lib, types_rs, shim, pc, version, target, resp, log,
          last, runs, tampers>>
disk == <<archive, tree, lib, types_rs, shim>>

Init ==
    /\ archive = [v \in Versions |-> NoFile]
    /\ tree = [v \in Versions |-> NoDir]
    /\ lib = NoLib
    /\ types_rs = NoTypes
    /\ shim = "none"
    /\ pc = [p \in Procs |-> "idle"]
    /\ version = [p \in Procs |-> "none"]
    /\ target = [p \in Procs |-> NoTarget]
    /\ resp = [p \in Procs |-> NoResp]
    /\ log = [p \in Procs |-> NoLog]
    /\ last = NoLast
    /\ runs = 0
    /\ tampers = FALSE

(* ------------------------------ helpers -------------------------------- *)

Min(a, b) == IF a < b THEN a ELSE b
Max(a, b) == IF a > b THEN a ELSE b

\* A write of chunk c at the writer's own offset: each fs::File has its
\* position, so a write behind the end of a file that another File::create has
\* truncated in the meantime leaves a hole before it.
WriteAt(d, off, c) ==
    [i \in 1..Max(Len(d), off + 1) |->
       IF i = off + 1 THEN c ELSE IF i <= Len(d) THEN d[i] ELSE <<"hole", i>>]

Goto(p, l) == pc' = [pc EXCEPT ![p] = l]
\* A panic: unwrap, expect or assert! failed; the process exits.
Abort(p) == pc' = [pc EXCEPT ![p] = "aborted"]

\* Sha256 over the bytes of a file, hex-encoded; collision-free.
Sha256Hex(d) == <<"sha256", d>>
\* The literal the script compares with: the digest of the pinned release.
PinnedHash(v) == Sha256Hex(Body(v))

\* Mutant: the file passes as soon as it begins like the pinned release.
is_valid_tf_src_prefix(f, v) == Len(f.data) >= 1 /\ f.data[1] = Body(v)[1]

is_valid_tf_src(f, v) == Sha256Hex(f.data) = PinnedHash(v)

(* ------------------------------ main ----------------------------------- *)

\* cargo starts the build script with a version compiled in and a target in
\* the environment; fs::create_dir of OUT_DIR/tensorflow tolerates its presence.
StartRun(p, v, t) ==
    /\ pc[p] \in {"idle", "done", "aborted"}
    /\ runs < MaxRuns
    /\ runs' = runs + 1
    /\ version' = [version EXCEPT ![p] = v]
    /\ target' = [target EXCEPT ![p] = t]
    /\ log' = [log EXCEPT ![p] =
                 [NoLog EXCEPT
                    !.start_exists = archive[v].exists,
                    !.start_valid = archive[v].exists /\ is_valid_tf_src(archive[v], v),
                    !.prev = last]]
    /\ last' = NoLast
    /\ Goto(p, "check_src")
    /\ UNCHANGED <<disk, resp, tampers>>

(* --------------------- prepare_tensorflow_source ----------------------- *)

\* Mutant: a file that is there is not hashed again.
NeedsDownload_exists_only(p) == ~archive[version[p]].exists

\* if !tf_src_name.exists() || !is_valid_tf_src(&tf_src_name)
NeedsDownload(p) ==
    \/ ~archive[version[p]].exists
    \/ ~is_valid_tf_src(archive[version[p]], version[p])

CheckSource(p) ==
    /\ pc[p] = "check_src"
    /\ IF NeedsDownload(p)
         THEN /\ Goto(p, "download")
              /\ UNCHANGED log
         ELSE /\ Goto(p, "check_dir")
              /\ log' = [log EXCEPT ![p].verified = TRUE]
    /\ UNCHANGED <<disk, version, target, resp, last, runs, tampers>>

\* download: reqwest::get(source_url)? then fs::File::create(&target_file)?.
\* An Err of either leaves the file as it was and reaches the caller's unwrap;
\* otherwise the file is truncated and the body (whatever the server sends,
\* reqwest::get does not look at the status) is about to be streamed.
HttpGet(p) ==
    /\ pc[p] = "download"
    /\ \/ /\ Abort(p)
          /\ log' = [log EXCEPT ![p].fetch = Min(@ + 1, FetchCap)]
          /\ UNCHANGED <<archive, resp>>
       \/ \E b \in {version[p], "other"} :
            /\ resp' = [resp EXCEPT ![p] = [body |-> b, off |-> 0]]
            /\ archive' = [archive EXCEPT ![version[p]] = File(<<>>)]
            /\ log' = [log EXCEPT ![p].fetch = Min(@ + 1, FetchCap),
                                  ![p].wrote = @ \cup {"archive"}]
            /\ Goto(p, "copy_to")
    /\ UNCHANGED <<tree, lib, types_rs, shim, version, target, last, runs, tampers>>

\* resp.copy_to(&mut writer): a chunk of the body reaches the file.
CopyChunk(p) ==
    /\ pc[p] = "copy_to"
    /\ LET f == archive[version[p]]
           n == resp[p].off
       IN /\ n < BodyChunks - 1
          /\ archive' = [archive EXCEPT ![version[p]] =
                           File(WriteAt(f.data, n, Body(resp[p].body)[n + 1]))]
          /\ resp' = [resp EXCEPT ![p].off = n + 1]
    /\ UNCHANGED <<tree, lib, types_rs, shim, pc, version, target, log,
                   last, runs, tampers>>

\* resp.copy_to(&mut writer)?: the transfer breaks; what was written stays.
CopyFail(p) ==
    /\ pc[p] = "copy_to"
    /\ Abort(p)
    /\ resp' = [resp EXCEPT ![p] = NoResp]
    /\ UNCHANGED <<disk, version, target, log, last, runs, tampers>>

\* Ok(()): the BufWriter is dropped, which flushes what it still holds and
\* ignores an error of that flush.
DownloadReturn(p) ==
    /\ pc[p] = "copy_to"
    /\ LET f == archive[version[p]]
           n == resp[p].off
       IN /\ n = BodyChunks - 1
          /\ \E flushed \in BOOLEAN :
               archive' = [archive EXCEPT ![version[p]] =
                             IF flushed
                               THEN File(WriteAt(f.data, n, Body(resp[p].body)[n + 1]))
                               ELSE f]
    /\ resp' = [resp EXCEPT ![p] = NoResp]
    /\ Goto(p, "assert_valid")
    /\ UNCHANGED <<tree, lib, types_rs, shim, version, target, log, last, runs, tampers>>

\* Mutant: the assert! after the download is missing.
AfterDownload_no_assert(p) == "check_dir"

\* Mutant: a mismatch after the download fetches again.
AfterDownload_retry(p) ==
    IF is_valid_tf_src(archive[version[p]], version[p]) THEN "check_dir" ELSE "download"

\* assert!(is_valid_tf_src(&tf_src_name), "{} is not valid", ..)
AfterDownload(p) ==
    IF is_valid_tf_src(archive[version[p]], version[p]) THEN "check_dir" ELSE "aborted"

AssertValid(p) ==
    /\ pc[p] = "assert_valid"
    /\ Goto(p, AfterDownload(p))
    /\ log' = [log EXCEPT ![p].verified =
                 is_valid_tf_src(archive[version[p]], version[p])]
    /\ UNCHANGED <<disk, version, target, resp, last, runs, tampers>>

\* let tf_src_dir_inner = ..; if !tf_src_dir_inner.exists()
CheckDir(p) ==
    /\ pc[p] = "check_dir"
    /\ Goto(p, IF tree[version[p]].exists THEN "check_lib" ELSE "extract")
    /\ log' = [log EXCEPT ![p].found_tree =
                 IF tree[version[p]].exists THEN "present" ELSE "absent"]
    /\ UNCHANGED <<disk, version, target, resp, last, runs, tampers>>

\* extract: File::open, GzDecoder, Archive::unpack, each unwrapped.  The whole
\* tree comes out of the complete tarball only; unpack may stop part-way (disk,
\* permissions, a truncated stream) and leave the root directory behind, or
\* fail before it has created anything.
Extract(p) ==
    /\ pc[p] = "extract"
    /\ LET v == version[p]
           a == archive[v]
       IN \/ /\ a.exists /\ a.data = Body(v)
             /\ tree' = [tree EXCEPT ![v] = FreshTree("full")]
             /\ log' = [log EXCEPT ![p].extracted = TRUE, ![p].wrote = @ \cup {"tree"}]
             /\ Goto(p, "deps")
          \/ /\ a.exists /\ Len(a.data) >= 1 /\ a.data[1] = Body(v)[1]
             /\ tree' = [tree EXCEPT ![v] = FreshTree("partial")]
             /\ log' = [log EXCEPT ![p].wrote = @ \cup {"tree"}]
             /\ Abort(p)
          \/ /\ Abort(p)
             /\ UNCHANGED <<tree, log>>
    /\ UNCHANGED <<archive, lib, types_rs, shim, version, target, resp, last, runs, tampers>>

\* Command::new(".../download_dependencies.sh").status().expect(..): status()
\* is Err only when the script cannot be started; its exit status is an Ok
\* value that the code does not look at.
AfterDeps(status) == "patch_linux"

RunDeps(p) ==
    /\ pc[p] = "deps"
    /\ LET v == version[p]
       IN \/ /\ Abort(p)
             /\ UNCHANGED <<tree, log>>
          \/ \E status \in {"zero", "nonzero"} :
               /\ tree' = [tree EXCEPT ![v].deps =
                             IF status = "zero" THEN "ok" ELSE "failed"]
               /\ log' = [log EXCEPT ![p].deps = status,
                                     ![p].wrote = @ \cup {"downloads"}]
               /\ Goto(p, AfterDeps(status))
    /\ UNCHANGED <<archive, lib, types_rs, shim, version, target, resp, last, runs, tampers>>

\* Mutant: the linux makefile is left alone when the aarch64 one applies.
AppliesLinuxPatch_exclusive(t) == t.os = "linux" /\ t.arch # "aarch64"

\* if env::var("CARGO_CFG_TARGET_OS").unwrap() == "linux"
AppliesLinuxPatch(t) == t.os = "linux"

\* if env::var("CARGO_CFG_TARGET_ARCH").unwrap() == "aarch64"
AppliesAarch64Patch(t) == t.arch = "aarch64"

\* fs::copy("data/linux_makefile.inc", ..).expect("Unable to copy linux makefile")
PatchLinux(p) ==
    /\ pc[p] = "patch_linux"
    /\ LET v == version[p]
       IN IF AppliesLinuxPatch(target[p])
            THEN \/ /\ tree' = [tree EXCEPT ![v].linux_inc = TRUE]
                    /\ log' = [log EXCEPT ![p].wrote = @ \cup {"linux_makefile.inc"}]
                    /\ Goto(p, "patch_aarch64")
                 \/ /\ Abort(p)
                    /\ UNCHANGED <<tree, log>>
            ELSE /\ Goto(p, "patch_aarch64")
                 /\ UNCHANGED <<tree, log>>
    /\ UNCHANGED <<archive, lib, types_rs, shim, version, target, resp, last, runs, tampers>>

\* fs::copy("data/aarch64_makefile.inc", ..).expect("Unable to copy aarch64 makefile")
PatchAarch64(p) ==
    /\ pc[p] = "patch_aarch64"
    /\ LET v == version[p]
       IN IF AppliesAarch64Patch(target[p])
            THEN \/ /\ tree' = [tree EXCEPT ![v].aarch64_inc = TRUE]
                    /\ log' = [log EXCEPT ![p].wrote = @ \cup {"aarch64_makefile.inc"}]
                    /\ Goto(p, "rm_mmap")
                 \/ /\ Abort(p)
                    /\ UNCHANGED <<tree, log>>
            ELSE /\ Goto(p, "rm_mmap")
                 /\ UNCHANGED <<tree, log>>
    /\ UNCHANGED <<archive, lib, types_rs, shim, version, target, resp, last, runs, tampers>>

\* fs::remove_file(.. mmap_allocation_disabled.cc).expect(..): an Err when the
\* file is not there, or cannot be removed.
RemoveMmap(p) ==
    /\ pc[p] = "rm_mmap"
    /\ LET v == version[p]
       IN \/ /\ tree[v].mmap_cc
             /\ tree' = [tree EXCEPT ![v].mmap_cc = FALSE]
             /\ log' = [log EXCEPT ![p].wrote = @ \cup {"mmap_allocation_disabled.cc"}]
             /\ Goto(p, "rm_nnapi")
          \/ /\ Abort(p)
             /\ UNCHANGED <<tree, log>>
    /\ UNCHANGED <<archive, lib, types_rs, shim, version, target, resp, last, runs, tampers>>

\* fs::remove_file(.. nnapi_delegate.cc).expect("Unable to remove nnapi delegate")
RemoveNnapi(p) ==
    /\ pc[p] = "rm_nnapi"
    /\ LET v == version[p]
       IN \/ /\ tree[v].nnapi_cc
             /\ tree' = [tree EXCEPT ![v].nnapi_cc = FALSE]
             /\ log' = [log EXCEPT ![p].wrote = @ \cup {"nnapi_delegate.cc"}]
             /\ Goto(p, "check_lib")
          \/ /\ Abort(p)
             /\ UNCHANGED <<tree, log>>
    /\ UNCHANGED <<archive, lib, types_rs, shim, version, target, resp, last, runs, tampers>>

(* --------------------- prepare_tensorflow_library ---------------------- *)

\* Mutant: the library is built on every run.
NeedsBuild_always == TRUE

\* if !tf_lib_name.exists(): the name depends on neither version nor target.
NeedsBuild == ~lib.exists

CheckLib(p) ==
    /\ pc[p] = "check_lib"
    /\ Goto(p, IF NeedsBuild THEN "make" ELSE "bindgen")
    /\ log' = [log EXCEPT ![p].found_lib = IF lib.exists THEN "present" ELSE "absent"]
    /\ UNCHANGED <<disk, version, target, resp, last, runs, tampers>>

\* The tree make can build: all of the sources, and the dependencies the
\* script fetches into tools/make/downloads.
Buildable(tr) == tr.exists /\ tr.unpacked = "full" /\ tr.deps = "ok"

\* Mutant: the copy to OUT_DIR is skipped after make.
AfterMake_skip_copy(status) == "bindgen"

\* Command::new("make") .. .status().expect("failed to build tensorflow"):
\* as for the script, only a make that cannot be started is an Err.  make
\* leaves its archive at gen/<os>_<arch>/lib/libtensorflow-lite.a: "ok" is
\* the output of a make that exited 0, "failed" the archive of a make that
\* produced it and then failed on a later goal.
AfterMake(status) == "copy_lib"

Make(p) ==
    /\ pc[p] = "make"
    /\ LET v == version[p]
           t == target[p]
       IN \/ /\ Abort(p)
             /\ UNCHANGED <<tree, log>>
          \/ /\ Buildable(tree[v])
             /\ tree' = [tree EXCEPT ![v].gen[t] = "ok"]
             /\ log' = [log EXCEPT ![p].make = "zero", ![p].wrote = @ \cup {"gen"}]
             /\ Goto(p, AfterMake("zero"))
          \/ /\ UNCHANGED tree
             /\ log' = [log EXCEPT ![p].make = "zero"]
             /\ Goto(p, AfterMake("zero"))
          \/ /\ UNCHANGED tree
             /\ log' = [log EXCEPT ![p].make = "nonzero"]
             /\ Goto(p, AfterMake("nonzero"))
          \/ /\ Buildable(tree[v])
             /\ tree' = [tree EXCEPT ![v].gen[t] = "failed"]
             /\ log' = [log EXCEPT ![p].make = "nonzero", ![p].wrote = @ \cup {"gen"}]
             /\ Goto(p, AfterMake("nonzero"))
    /\ UNCHANGED <<archive, lib, types_rs, shim, version, target, resp, last, runs, tampers>>

\* Mutant: the destination is created before the source is looked at.
CopyOpens_creates_first(src) == TRUE

\* fs::copy opens the source before it creates the destination: with the
\* source missing it is an Err and nothing is created.
CopyOpens(src) == src # "none"

\* fs::copy(gen/<os>_<arch>/lib/libtensorflow-lite.a, &tf_lib_name).expect(..):
\* the source is opened first, so a missing source creates nothing; the copy
\* is not atomic, a failure part-way leaves an incomplete file behind.
CopyLib(p) ==
    /\ pc[p] = "copy_lib"
    /\ LET v == version[p]
           t == target[p]
           src == tree[v].gen[t]
       IN IF ~CopyOpens(src)
            THEN /\ Abort(p)
                 /\ UNCHANGED <<lib, log>>
            ELSE \E whole \in BOOLEAN :
                   /\ lib' = [exists |-> TRUE, ver |-> v, target |-> t,
                              build |-> src, whole |-> whole]
                   /\ log' = [log EXCEPT ![p].wrote = @ \cup {"libtensorflow-lite.a"}]
                   /\ IF whole THEN Goto(p, "bindgen") ELSE Abort(p)
    /\ UNCHANGED <<archive, tree, types_rs, shim, version, target, resp, last, runs, tampers>>

(* -------------------------- import_tflite_types ------------------------ *)

\* Mutant: the whitelist_type line of an opaque type is missing.
whitelist_types_no_delegate ==
    {"tflite::FlatBufferModel", "tflite::InterpreterBuilder", "tflite::Interpreter",
     "tflite::ops::builtin::BuiltinOpResolver", "tflite::OpResolver",
     "TfLiteTensor", "TfLiteType", "TfLitePtrUnion", "TfLiteIntArray",
     "TfLiteQuantizationParams", "TfLiteAllocationType",
     "TfLiteBufferHandle", "TfLiteComplex64", "TfLiteStatus"}

\* The names given to whitelist_type (TfLiteQuantizationParams is given twice).
whitelist_types ==
    {"tflite::FlatBufferModel", "tflite::InterpreterBuilder", "tflite::Interpreter",
     "tflite::ops::builtin::BuiltinOpResolver", "tflite::OpResolver",
     "TfLiteTensor", "TfLiteType", "TfLitePtrUnion", "TfLiteIntArray",
     "TfLiteQuantizationParams", "TfLiteAllocationType", "TfLiteDelegate",
     "TfLiteBufferHandle", "TfLiteComplex64", "TfLiteStatus"}

\* The names given to opaque_type.
opaque_types ==
    {"tflite::FlatBufferModel", "tflite::InterpreterBuilder", "tflite::Interpreter",
     "tflite::ops::builtin::BuiltinOpResolver", "tflite::OpResolver", "TfLiteDelegate"}

\* The names given to blacklist_type.
blacklist_types ==
    {"std", "tflite::Interpreter_TfLiteDelegatePtr", "tflite::Interpreter_State"}

\* Types csrc/tflite_wrapper.hpp brings into view: the manifest's, and others
\* that are reachable from them without being named in it.
header_types ==
    whitelist_types \cup opaque_types \cup blacklist_types
      \cup {"TfLiteContext", "TfLiteNode", "tflite::ErrorReporter"}

\* What bindgen emits with whitelist_recursively(false): a declaration for
\* each type of the headers that is allow-listed and not blacklisted, without
\* fields when the type is marked opaque.
generate(allow, opaque, deny) ==
    {[name |-> n, fields |-> n \notin opaque] : n \in (header_types \cap allow) \ deny}

\* bindings.generate().expect(..) then write_to_file(OUT_DIR/tflite_types.rs):
\* run on every invocation, there is no existence check.
Bindgen(p) ==
    /\ pc[p] = "bindgen"
    /\ \/ /\ Buildable(tree[version[p]])
          /\ types_rs' = [exists |-> TRUE, ver |-> version[p],
                           decls |-> generate(whitelist_types, opaque_types,
                                              blacklist_types)]
          /\ log' = [log EXCEPT ![p].wrote = @ \cup {"tflite_types.rs"}]
          /\ Goto(p, "link")
       \/ /\ Abort(p)
          /\ UNCHANGED <<types_rs, log>>
    /\ UNCHANGED <<archive, tree, lib, shim, version, target, resp, last, runs, tampers>>

(* ---------------------------- build_inline_cpp ------------------------- *)

\* println!("cargo:rustc-link-lib=static=tensorflow-lite") and the two dylibs.
EmitLink(p) ==
    /\ pc[p] = "link"
    /\ log' = [log EXCEPT ![p].linked = TRUE]
    /\ Goto(p, "compile_shim")
    /\ UNCHANGED <<disk, version, target, resp, last, runs, tampers>>

\* cpp_build::Config::new() .. .build("src/lib.rs"): panics when the compiler
\* fails; main returns after it.
CompileShim(p) ==
    /\ pc[p] = "compile_shim"
    /\ \/ /\ shim' = version[p]
          /\ log' = [log EXCEPT ![p].wrote = @ \cup {"shim"}]
          /\ last' = [ok |-> TRUE, ver |-> version[p], target |-> target[p]]
          /\ Goto(p, "done")
       \/ /\ Abort(p)
          /\ UNCHANGED <<shim, log, last>>
    /\ UNCHANGED <<archive, tree, lib, types_rs, version, target, resp, runs, tampers>>

(* ----------------------------- environment ----------------------------- *)

\* Between two runs a byte of a complete, genuine archive on disk is changed
\* (once).
Tamper(v) ==
    /\ \A p \in Procs : pc[p] \in {"idle", "done", "aborted"}
    /\ ~tampers
    /\ archive[v].exists
    /\ archive[v].data = Body(v)
    /\ \E i \in 1..Len(archive[v].data) :
         /\ archive[v].data[i] # <<"other", i>>
         /\ archive' = [archive EXCEPT ![v].data[i] = <<"other", i>>]
    /\ tampers' = TRUE
    /\ last' = NoLast
    /\ UNCHANGED <<tree, lib, types_rs, shim, pc, version, target, resp, log, runs>>

(* ---------------------------- specification ---------------------------- *)

Step(p) ==
    \/ CheckSource(p)
    \/ HttpGet(p)
    \/ CopyChunk(p)
    \/ CopyFail(p)
    \/ DownloadReturn(p)
    \/ AssertValid(p)
    \/ CheckDir(p)
    \/ Extract(p)
    \/ RunDeps(p)
    \/ PatchLinux(p)
    \/ PatchAarch64(p)
    \/ RemoveMmap(p)
    \/ RemoveNnapi(p)
    \/ CheckLib(p)
    \/ Make(p)
    \/ CopyLib(p)
    \/ Bindgen(p)
    \/ EmitLink(p)
    \/ CompileShim(p)

\* One build script at a time, as cargo runs it.
Next ==
    \/ \E v \in Versions, t \in Targets : StartRun(Main, v, t)
    \/ Step(Main)
    \/ \E v \in Versions : Tamper(v)

Spec == Init /\ [][Next]_vars

\* Two build scripts started on the same OUT_DIR with nothing serializing
\* them: their steps interleave freely.
\* Both build the pinned release for the same target, the one both makefile
\* patches apply to.
ConcVersions == {"1.12.2"}
ConcTargets == {[os |-> "linux", arch |-> "aarch64"]}

NextConc ==
    \E p \in Procs :
      \/ \E v \in ConcVersions, t \in ConcTargets : StartRun(p, v, t)
      \/ Step(p)

SpecConc == Init /\ [][NextConc]_vars

(* ------------------------------- claims -------------------------------- *)

\* Positions of a run after prepare_tensorflow_source has settled the archive.
PostAcquire == {"check_dir", "extract", "deps", "patch_linux", "patch_aarch64",
                "rm_mmap", "rm_nnapi", "check_lib", "make", "copy_lib",
                "bindgen", "link", "compile_shim", "done"}
\* Files of OUT_DIR only the stages after the patcher's dependency script write.
AfterDepsFiles == {"linux_makefile.inc", "aarch64_makefile.inc",
                   "mmap_allocation_disabled.cc", "nnapi_delegate.cc", "gen",
                   "libtensorflow-lite.a", "tflite_types.rs", "shim"}
\* Positions at which both makefile decisions of a fresh tree have been taken.
PatchDecided == {"rm_mmap", "rm_nnapi", "check_lib", "make", "copy_lib",
                 "bindgen", "link", "compile_shim", "done"}
ArchiveOf(p) == archive[version[p]]
Prefix(s, n) == [i \in 1..n |-> s[i]]
\* The run directly follows a successful run for the same version and target.
Warm(p) ==
    /\ log[p].prev.ok
    /\ log[p].prev.ver = version[p]
    /\ log[p].prev.target = target[p]

\* C1: a run is at, or has left a trace of, the extract, patch, build, binding
\* or shim stage only if the archive of its version passed the SHA-256 check
\* in that same run, and while it is in those stages the file on disk is the
\* verified one; a download that does not verify ends the run.
C1_VerifiedBeforeLaterStages ==
    \A p \in Procs :
      /\ (pc[p] \in PostAcquire \/ ~(log[p].wrote \subseteq {"archive"})
          \/ log[p].deps # "none" \/ log[p].make # "none" \/ log[p].linked)
            => log[p].verified
      /\ pc[p] \in PostAcquire \ {"done"}
            => ArchiveOf(p).exists /\ is_valid_tf_src(ArchiveOf(p), version[p])

\* C1 witness: a run that had to download has verified and reached the shim.
C1_Witness ==
    /\ pc[Main] = "compile_shim"
    /\ log[Main].fetch = 1
    /\ log[Main].verified

\* C2 (as claimed): a run that directly follows a successful run for the same
\* version and target fetches nothing, extracts nothing, runs no tool and
\* writes no file of the output directory.
C2_SecondRunWritesNothing ==
    \A p \in Procs :
      Warm(p) =>
        /\ log[p].fetch = 0
        /\ ~log[p].extracted
        /\ log[p].make = "none"
        /\ log[p].wrote = {}

\* C2 (amended): such a run fetches nothing, extracts and patches nothing and
\* does not run make or rewrite the archive, the tree or the library; it does
\* regenerate tflite_types.rs and recompile the shim, and only those.
C2_SecondRunReusesCache ==
    \A p \in Procs :
      Warm(p) =>
        /\ log[p].fetch = 0
        /\ ~log[p].extracted
        /\ log[p].deps = "none"
        /\ log[p].make = "none"
        /\ log[p].wrote \subseteq {"tflite_types.rs", "shim"}
        /\ pc[p] \in {"link", "compile_shim", "done"} => "tflite_types.rs" \in log[p].wrote
        /\ pc[p] = "done" => log[p].wrote = {"tflite_types.rs", "shim"}

\* C2 witness: the second of two runs for one version and target has finished.
C2_Witness ==
    /\ Warm(Main)
    /\ pc[Main] = "done"
    /\ runs = 2

\* C3 (as claimed): once the dependency script has exited non-zero, the run
\* performs no later patch step, no native build, no binding generation and
\* no shim compilation.
C3_DepsFailureIsFatal ==
    \A p \in Procs :
      log[p].deps = "nonzero" =>
        /\ log[p].wrote \cap AfterDepsFiles = {}
        /\ log[p].make = "none"
        /\ ~log[p].linked

\* C4 (as claimed): once make has exited non-zero, nothing is copied to
\* libtensorflow-lite.a and neither bindgen nor the shim compiler runs.
C4_MakeFailureIsFatal ==
    \A p \in Procs :
      log[p].make = "nonzero" =>
        /\ "libtensorflow-lite.a" \notin log[p].wrote
        /\ pc[p] \notin {"bindgen", "link", "compile_shim", "done"}
        /\ log[p].wrote \cap {"tflite_types.rs", "shim"} = {}

\* C5 (as claimed): whenever no transfer is in progress, the archive file is
\* absent or holds a complete body, never a truncated one.
C5_ArchiveWrittenAtomically ==
    (\A p \in Procs : pc[p] # "copy_to") =>
      \A v \in Versions : archive[v].exists => Len(archive[v].data) = BodyChunks

\* C5 (amended): the write is not atomic. The archive file is absent, complete
\* or a truncated prefix (possibly empty) of the body a download was fetching,
\* and no run is past the acquirer while the file of its version is truncated.
C5_TruncatedNeverAccepted ==
    \A v \in Versions :
      archive[v].exists =>
        /\ Len(archive[v].data) <= BodyChunks
        /\ Len(archive[v].data) < BodyChunks =>
             /\ \E b \in Bodies :
                  archive[v].data = Prefix(Body(b), Len(archive[v].data))
             /\ \A p \in Procs : version[p] = v => pc[p] \notin PostAcquire

\* C5 witness: a run has ended in the download and left a truncated, non-empty
\* archive behind.
C5_Witness ==
    /\ pc[Main] = "aborted"
    /\ ArchiveOf(Main).exists
    /\ Len(ArchiveOf(Main).data) \in 1..(BodyChunks - 1)

\* C6 (as claimed): a run that directly follows a successful run for another
\* pinned version reuses nothing of it: when it gets to binding generation it
\* has run make, and libtensorflow-lite.a was built from the tree of its own
\* version.
C6_VersionChangeRebuilds ==
    \A p \in Procs :
      (log[p].prev.ok /\ log[p].prev.ver # version[p]
         /\ pc[p] \in {"bindgen", "link", "compile_shim", "done"}) =>
        /\ log[p].make # "none"
        /\ lib.ver = version[p]

\* C7 (as claimed): whenever a run has emitted the static-link directive,
\* libtensorflow-lite.a is the complete output of a successful make for that
\* run's target.
C7_NoStaleOrPartialArtifact ==
    \A p \in Procs :
      (log[p].linked /\ pc[p] \in {"compile_shim", "done", "aborted"}) =>
        /\ lib.exists
        /\ lib.whole
        /\ lib.build = "ok"
        /\ lib.target = target[p]

\* C8 (as claimed): on a fresh tree, target linux/x86_64 gets the linux
\* makefile and not the aarch64 one; every aarch64 target gets the aarch64
\* makefile and not the linux one.
C8_PatchesAreExclusive ==
    \A p \in Procs :
      (log[p].extracted /\ pc[p] \in PatchDecided) =>
        /\ target[p] = [os |-> "linux", arch |-> "x86_64"] =>
             /\ "linux_makefile.inc" \in log[p].wrote
             /\ "aarch64_makefile.inc" \notin log[p].wrote
        /\ target[p].arch = "aarch64" =>
             /\ "aarch64_makefile.inc" \in log[p].wrote
             /\ "linux_makefile.inc" \notin log[p].wrote

\* C8 (amended): on a fresh tree the two overwrites are decided independently:
\* linux_makefile.inc is overwritten exactly when os is linux, whatever the
\* arch, and aarch64_makefile.inc exactly when arch is aarch64, whatever the os.
C8_PatchesAreIndependent ==
    \A p \in Procs :
      (log[p].extracted /\ pc[p] \in PatchDecided) =>
        /\ "linux_makefile.inc" \in log[p].wrote <=> target[p].os = "linux"
        /\ "aarch64_makefile.inc" \in log[p].wrote <=> target[p].arch = "aarch64"
        /\ tree[version[p]].linux_inc = (target[p].os = "linux")
        /\ tree[version[p]].aarch64_inc = (target[p].arch = "aarch64")

\* C8 witness: a linux/aarch64 run has overwritten both makefiles.
C8_Witness ==
    /\ pc[Main] = "rm_mmap"
    /\ log[Main].extracted
    /\ target[Main] = [os |-> "linux", arch |-> "aarch64"]
    /\ {"linux_makefile.inc", "aarch64_makefile.inc"} \subseteq log[Main].wrote

\* C9: a run calls download at most once; not at all when the archive it
\* found verifies, exactly once before it goes on when it found none or a
\* mismatching one; and a run whose one download does not verify is aborted.
C9_AtMostOneDownload ==
    \A p \in Procs :
      /\ log[p].fetch <= 1
      /\ log[p].start_valid => log[p].fetch = 0
      /\ (~log[p].start_valid /\ pc[p] \in PostAcquire) => log[p].fetch = 1
      /\ (log[p].fetch = 1 /\ ~log[p].verified
            /\ pc[p] \notin {"copy_to", "assert_valid"}) => pc[p] = "aborted"

\* C9 witness: the one download brought a complete body that does not hash to
\* the pinned value, and the run is over.
C9_Witness ==
    /\ pc[Main] = "aborted"
    /\ log[Main].fetch = 1
    /\ ~log[Main].verified
    /\ ArchiveOf(Main).exists
    /\ Len(ArchiveOf(Main).data) = BodyChunks

\* C10: a run that finds an archive which no longer hashes to the pinned value
\* downloads before it does anything else, writes nothing but the archive
\* until the new content has verified, and goes on only once it has, also
\* when the tree and the library are already there.
C10_CorruptArchiveRefetched ==
    \A p \in Procs :
      (log[p].start_exists /\ ~log[p].start_valid) =>
        /\ pc[p] \notin {"check_src", "download"} => log[p].fetch >= 1
        /\ ~log[p].verified =>
             /\ log[p].wrote \subseteq {"archive"}
             /\ pc[p] \notin PostAcquire
        /\ pc[p] \in PostAcquire => log[p].fetch = 1

\* C10 witness: after a successful run the archive was altered; the next run,
\* with tree and library cached, fetched once, verified and finished.
C10_Witness ==
    /\ tampers
    /\ log[Main].start_exists
    /\ ~log[Main].start_valid
    /\ log[Main].fetch = 1
    /\ "libtensorflow-lite.a" \notin log[Main].wrote
    /\ ~log[Main].extracted
    /\ pc[Main] = "done"

\* C11: when libtensorflow-lite.a is there as the builder starts, the run does
\* not invoke make, writes nothing under gen/ and does not rewrite the library:
\* the file stays what the builder found.
C11_BuilderSkipsWhenLibExists ==
    \A p \in Procs :
      log[p].found_lib = "present" =>
        /\ pc[p] \notin {"check_lib", "make", "copy_lib"}
        /\ log[p].make = "none"
        /\ "gen" \notin log[p].wrote
        /\ "libtensorflow-lite.a" \notin log[p].wrote
        /\ lib.exists

\* C11 witness: a run found the library, skipped the builder and finished.
C11_Witness ==
    /\ log[Main].found_lib = "present"
    /\ pc[Main] = "done"

\* C12: the manifest is consistent (every opaque name is allow-listed, no
\* allow-listed name is blacklisted), and a written tflite_types.rs declares
\* every opaque entry without fields, every other allow-listed entry with its
\* fields, each once, and no blacklisted name.
C12_ManifestEmission ==
    /\ opaque_types \subseteq whitelist_types
    /\ whitelist_types \cap blacklist_types = {}
    /\ types_rs.exists =>
         /\ \A n \in opaque_types :
              [name |-> n, fields |-> FALSE] \in types_rs.decls
         /\ \A n \in whitelist_types \ opaque_types :
              [name |-> n, fields |-> TRUE] \in types_rs.decls
         /\ \A d \in types_rs.decls : d.name \notin blacklist_types
         /\ \A d, e \in types_rs.decls : d.name = e.name => d = e

\* C12 witness: bindgen has written tflite_types.rs in this run.
C12_Witness ==
    /\ pc[Main] = "link"
    /\ types_rs.exists
    /\ "tflite_types.rs" \in log[Main].wrote

\* Positions of the patch stage, and the files its actions write.
PatchPositions == {"deps", "patch_linux", "patch_aarch64", "rm_mmap", "rm_nnapi"}
PatchFiles == {"downloads", "linux_makefile.inc", "aarch64_makefile.inc",
               "mmap_allocation_disabled.cc", "nnapi_delegate.cc"}
TreeOf(p) == tree[version[p]]

\* C13 (as claimed): whenever make has been invoked, the working tree of the
\* run is completely extracted, the dependency script has been run on it, the
\* makefile overwrites of the run's target have been made and both colliding
\* sources are deleted, whatever earlier runs did or aborted in.
C13_MakeOnlyOnPreparedTree ==
    \A p \in Procs :
      log[p].make # "none" =>
        /\ TreeOf(p).exists
        /\ TreeOf(p).unpacked = "full"
        /\ TreeOf(p).deps # "none"
        /\ target[p].os = "linux" => TreeOf(p).linux_inc
        /\ target[p].arch = "aarch64" => TreeOf(p).aarch64_inc
        /\ ~TreeOf(p).mmap_cc
        /\ ~TreeOf(p).nnapi_cc

\* C14 (as claimed): a run that finds the unpacked root performs no patch
\* action, and every completely extracted tree that no run is patching has had
\* each unconditional patch action (dependency script, the two deletions)
\* performed on it.
C14_PatchedExactlyOnce ==
    /\ \A p \in Procs :
         log[p].found_tree = "present" =>
           /\ pc[p] \notin PatchPositions
           /\ log[p].deps = "none"
           /\ log[p].wrote \cap PatchFiles = {}
    /\ \A v \in Versions :
         (/\ tree[v].exists
          /\ tree[v].unpacked = "full"
          /\ \A p \in Procs : version[p] = v => pc[p] \notin PatchPositions) =>
           /\ tree[v].deps # "none"
           /\ ~tree[v].mmap_cc
           /\ ~tree[v].nnapi_cc

\* The half of C14 the existence check does give: patch actions happen only in
\* the run that extracted the tree, never in one that found it.
C14_NeverReapplied ==
    \A p \in Procs :
      /\ log[p].found_tree = "present" =>
           /\ pc[p] \notin PatchPositions
           /\ log[p].deps = "none"
           /\ log[p].wrote \cap PatchFiles = {}
      /\ (pc[p] \in PatchPositions \/ log[p].deps # "none"
          \/ log[p].wrote \cap PatchFiles # {}) => log[p].extracted

Valid(p) == ArchiveOf(p).exists /\ is_valid_tf_src(ArchiveOf(p), version[p])

\* C15: unserialized runs are not safe. Each run still enters the stages after
\* the acquirer only on an archive that verifies, and such an archive stops
\* verifying under a run only by a step of the download of another run
\* (File::create truncating it, or a chunk written over it); C15_Witness is
\* the state this allows: a run extracting an archive another run is writing.
C15_OnlyOverlapBreaksVerification ==
    [][\A p \in Procs :
         /\ (pc[p] \notin PostAcquire /\ pc'[p] \in PostAcquire) => Valid(p)'
         /\ (pc[p] \in PostAcquire /\ pc'[p] \in PostAcquire /\ Valid(p) /\ ~Valid(p)') =>
              \E q \in Procs \ {p} :
                /\ version[q] = version[p]
                /\ pc[q] \in {"download", "copy_to"}
                /\ <<pc[q], resp[q]>> # <<pc'[q], resp'[q]>>]_vars

\* C15 witness: a run has verified the archive and is about to extract it
\* while the download of another run, having truncated it, is writing it.
C15_Witness ==
    \E p \in Procs, q \in Procs :
      /\ p # q
      /\ version[p] = version[q]
      /\ pc[p] = "extract"
      /\ log[p].verified
      /\ ~Valid(p)
      /\ pc[q] = "copy_to"

\* The other interleaving of C15: no run has aborted, one run has skipped
\* extraction and patching because the directory was there and is about to
\* invoke make, while the run that extracted the tree has not patched it yet.
C15_WitnessTree ==
    \E p \in Procs, q \in Procs :
      /\ p # q
      /\ version[p] = version[q]
      /\ pc[p] = "make"
      /\ log[p].found_tree = "present"
      /\ pc[q] \in PatchPositions
      /\ TreeOf(p).mmap_cc
      /\ runs = 2

\* The stage a position belongs to: 1 Acquirer, 2 Extractor, 3 Patcher,
\* 4 Builder, 5 Binding Generator, 6 Shim Compiler, 7 main has returned.
StageOf(l) ==
    CASE l \in {"check_src", "download", "copy_to", "assert_valid"} -> 1
      [] l \in {"check_dir", "extract"} -> 2
      [] l \in PatchPositions -> 3
      [] l \in {"check_lib", "make", "copy_lib"} -> 4
      [] l = "bindgen" -> 5
      [] l \in {"link", "compile_shim"} -> 6
      [] l = "done" -> 7
      [] OTHER -> 0

\* What a run at a position has behind it: the stages before it, completed.
StageReady(p) ==
    /\ StageOf(pc[p]) >= 2 => log[p].verified
    /\ StageOf(pc[p]) = 3 => log[p].extracted /\ TreeOf(p).unpacked = "full"
    /\ StageOf(pc[p]) >= 4 =>
         /\ log[p].found_tree # "unseen"
         /\ TreeOf(p).exists
         /\ log[p].extracted =>
              /\ log[p].deps # "none"
              /\ {"mmap_allocation_disabled.cc", "nnapi_delegate.cc"} \subseteq log[p].wrote
    /\ log[p].make # "none" => TreeOf(p).exists
    /\ StageOf(pc[p]) >= 5 => log[p].found_lib # "unseen" /\ lib.exists
    /\ StageOf(pc[p]) >= 6 => "tflite_types.rs" \in log[p].wrote
    /\ StageOf(pc[p]) = 7 => log[p].linked /\ "shim" \in log[p].wrote

\* C16: within a run the stages come in the order Acquirer, Extractor,
\* Patcher, Builder, Binding Generator, Shim Compiler: a step stays in its
\* stage, enters the next one (or the Builder from the Extractor, when the
\* tree is there and the Patcher has nothing to do) or ends the run with a
\* panic, after which only a new run follows; a run is in a stage only with
\* the stages before it completed; make is invoked only when the tree
\* directory exists, bindgen and the shim start only when libtensorflow-lite.a
\* exists.
C16_StagesInOrder ==
    /\ [](\A p \in Procs : StageReady(p))
    /\ [][\A p \in Procs :
            (pc'[p] # pc[p] /\ pc'[p] # "check_src") =>
              /\ StageOf(pc[p]) \in 1..6
              /\ \/ pc'[p] = "aborted"
                 \/ StageOf(pc'[p]) = StageOf(pc[p])
                 \/ StageOf(pc'[p]) = StageOf(pc[p]) + 1
                 \/ pc[p] = "check_dir" /\ pc'[p] = "check_lib"]_vars

\* C16 witness: a run that fetched, extracted, patched and built has reached
\* the shim compiler.
C16_Witness ==
    /\ pc[Main] = "compile_shim"
    /\ log[Main].fetch = 1
    /\ log[Main].extracted
    /\ log[Main].make = "zero"
    /\ "libtensorflow-lite.a" \in log[Main].wrote

\* The static archive at make's output path of the run's tree and target.
GenOf(p) == TreeOf(p).gen[target[p]]

\* C17: a run that has invoked make and has no libtensorflow-lite.a at
\* gen/<os>_<arch>/lib/ panics in the copy: nothing is created at
\* OUT_DIR/libtensorflow-lite.a, the run writes no bindings, emits no link
\* directive and compiles no shim; the run that follows starts with the
\* library absent, and a run that found it absent gets past make only by
\* invoking it.
C17_MissingBuildOutputIsFatal ==
    /\ [](\A p \in Procs :
            /\ (log[p].make # "none" /\ GenOf(p) = "none") =>
                 /\ pc[p] \in {"copy_lib", "aborted"}
                 /\ ~lib.exists
                 /\ log[p].wrote \cap {"libtensorflow-lite.a", "tflite_types.rs", "shim"} = {}
                 /\ ~log[p].linked
            /\ (log[p].found_lib = "absent" /\ pc[p] \notin {"make", "aborted"}) =>
                 log[p].make # "none")
    /\ [][\A p \in Procs :
            /\ (pc[p] = "copy_lib" /\ GenOf(p) = "none" /\ pc'[p] # pc[p]) =>
                 pc'[p] = "aborted" /\ lib' = lib
            /\ (pc[p] = "aborted" /\ log[p].make # "none" /\ GenOf(p) = "none"
                /\ pc'[p] = "check_src") =>
                 ~lib'.exists /\ log'[p].found_lib = "unseen"]_vars

\* C17 witness: make exited with status 0 and left no archive; the run has
\* panicked in the copy and OUT_DIR has no library.
C17_Witness ==
    /\ pc[Main] = "aborted"
    /\ log[Main].make = "zero"
    /\ GenOf(Main) = "none"
    /\ ~lib.exists

====
